---------------------------- MODULE Spec2Model ----------------------------
(***************************************************************************)
(* A model of the LangChain/NestJS chat service: LangchainChatService      *)
(* (basicChat, contextAwareChat, documentChat, uploadPDF, agentChat) and   *)
(* VectorStoreService (addDocuments, similaritySearch).                    *)
(*                                                                         *)
(* A request starts with the synchronous prefix of its handler and then    *)
(* advances one awaited call (completion, retrieval, PDF load, insert,     *)
(* tool call) per step; the external services answer nondeterministically, *)
(* with a value or with an error.                                          *)
(*                                                                         *)
(* Spec runs the requests one after another on a service that has          *)
(* started.  IngestSpec runs ingestions of every file, SplitterSpec the     *)
(* text splitter over every configuration, LifecycleSpec the starts and    *)
(* stops of VectorStoreService, and ConcurrentSpec two requests in flight  *)
(* together.                                                               *)
(*                                                                         *)
(* Values of the request side (queries, roles, message contents, prompt    *)
(* variables) are strings.  Document text is a sequence of one-character   *)
(* strings.  Generated text is a sequence of code points, and the bytes    *)
(* and the decoded answer are sequences of numbers.                        *)
(***************************************************************************)
EXTENDS Integers, Sequences, FiniteSets, TLC

VARIABLES
    pc,          \* position of the request in flight: "idle", an await point, "done"
    op,          \* the operation of the request in flight
    dto,         \* its input
    vars,        \* the variables handed to chain.invoke
    prompt,      \* the prompt rendered from the template and vars
    llmCalls,    \* completion-service invocations of this request
    generated,   \* the text the completion service generated for this request
    logged,      \* what Logger.error received during this request
    outcome,     \* what the caller receives
    retrieved,   \* documentChat: the matches similaritySearch returned
    embeddings,  \* uploadPDF: the documents built for addDocuments
    vsLog,       \* the Vector Store calls of this request, in order
    store,       \* the rows of the backing table, in insertion order
    addLog,      \* the completed addDocuments calls, in order
    pool,        \* VectorStoreService.pool and the clients checked out of it
    db,          \* the backing database: the extensions and the table it has
    parked,      \* the request that waits at an await while another one runs
    iterations,  \* agentChat: completed iterations of the executor's loop
    scratchpad,  \* agentChat: the {action, observation} steps so far
    action       \* agentChat: what the last Think returned

chainVars == <<vars, prompt, llmCalls, generated>>

agentVars == <<iterations, scratchpad, action>>

requestVars ==
    <<pc, op, dto, chainVars, logged, outcome, retrieved, embeddings, vsLog, agentVars>>

\* What is not of the request that runs: the Vector Store, and a request
\* that waits.
storeVars == <<store, addLog, pool, db, parked>>

allVars == <<requestVars, storeVars>>

---------------------------------------------------------------------------
(* Bounds and input sets *)

MaxMessages == 3

Roles == {"user", "assistant"}

Contents == {"A", "B", "C"}

Queries == {"a", "b", "ab"}

\* Code points of generated text: 'A', 'e' with acute accent, the euro sign.
CodePoints == {65, 233, 8364}

MaxTextLen == 2

Message == [role : Roles, content : Contents]

MessageSeqs == UNION {[1..n -> Message] : n \in 0..MaxMessages}

GeneratedTexts == UNION {[1..n -> CodePoints] : n \in 0..MaxTextLen}

\* Errors the external services raise.
CompletionError == [name |-> "Error", message |-> "429 rate limit exceeded (provider detail)"]

---------------------------------------------------------------------------
(* Framework values *)

HttpStatus == [OK |-> 200, BAD_REQUEST |-> 400, INTERNAL_SERVER_ERROR |-> 500]

MESSAGES == [SUCCESS |-> "SUCCESS", EXTERNAL_SERVER_ERROR |-> "EXTERNAL_SERVER_ERROR"]

\* customMessage(status, message) and customMessage(status, message, data)
customMessage(status, message) == [statusCode |-> status, message |-> message]

customMessageData(status, message, data) ==
    [statusCode |-> status, message |-> message, data |-> data]

HttpException(response, status) ==
    [name |-> "HttpException", response |-> response, status |-> status]

BadRequestException(message) ==
    [name |-> "BadRequestException",
     response |-> [statusCode |-> HttpStatus.BAD_REQUEST, message |-> message,
                   error |-> "Bad Request"],
     status |-> HttpStatus.BAD_REQUEST]

TypeError(message) == [name |-> "TypeError", message |-> message]

NoOutcome == [type |-> "none"]

NoAction == [tool |-> "none"]

Returned(value) == [type |-> "return", value |-> value]

Thrown(error) == [type |-> "throw", error |-> error]

---------------------------------------------------------------------------
(* Templates: a template is a sequence of literal parts and placeholders *)

Lit(s) == [lit |-> s]

Slot(s) == [slot |-> s]

BASIC_CHAT_TEMPLATE ==
    << Lit("You are an expert software engineer, give concise response.\n   User: "),
       Slot("input"),
       Lit("\n   AI:") >>

CONTEXT_AWARE_CHAT_TEMPLATE ==
    << Lit("You are an expert software engineer, give concise response.\n  \n   Current conversation:\n   "),
       Slot("chat_history"),
       Lit("\n   \n   User: "),
       Slot("input"),
       Lit("\n   AI:") >>

DOCUMENT_CONTEXT_CHAT_TEMPLATE ==
    << Lit("Answer the question based only on the following context:\n   "),
       Slot("context"),
       Lit("\n   \n   Question: "),
       Slot("question") >>

TEMPLATES ==
    [BASIC_CHAT_TEMPLATE |-> BASIC_CHAT_TEMPLATE,
     CONTEXT_AWARE_CHAT_TEMPLATE |-> CONTEXT_AWARE_CHAT_TEMPLATE,
     DOCUMENT_CONTEXT_CHAT_TEMPLATE |-> DOCUMENT_CONTEXT_CHAT_TEMPLATE]

IsSlot(part) == "slot" \in DOMAIN part

TemplateSlots(template) ==
    {template[i].slot : i \in {j \in 1..Len(template) : IsSlot(template[j])}}

\* PromptTemplate.format: every placeholder replaced by its variable.
RECURSIVE Render(_, _)
Render(template, values) ==
    IF template = <<>> THEN ""
    ELSE LET part == Head(template)
         IN  (IF IsSlot(part) THEN values[part.slot] ELSE part.lit)
                 \o Render(Tail(template), values)

MissingVariable(template, values) ==
    [name |-> "Error", message |-> "Missing value for input variable"]

---------------------------------------------------------------------------
(* Array helpers with JavaScript's semantics *)

\* A relative index of Array.prototype.slice, clamped to 0..len.
SliceIndex(i, len) ==
    IF i < 0 THEN (IF len + i < 0 THEN 0 ELSE len + i)
    ELSE (IF i > len THEN len ELSE i)

\* array.slice(start, end): the elements at 0-based positions start..end-1.
Slice(array, start, end) ==
    LET from == SliceIndex(start, Len(array))
        to == SliceIndex(end, Len(array))
    IN  IF to <= from THEN <<>> ELSE SubSeq(array, from + 1, to)

\* array.join(separator), for an array of strings.
RECURSIVE Join(_, _)
Join(array, separator) ==
    IF array = <<>> THEN ""
    ELSE IF Len(array) = 1 THEN array[1]
    ELSE array[1] \o separator \o Join(Tail(array), separator)

---------------------------------------------------------------------------
(* LangchainChatService: private helpers *)

formatMessage(message) == message.role \o ": " \o message.content

\* TextEncoder's UTF-8 bytes of one code point of the Basic Multilingual Plane.
Utf8(cp) ==
    IF cp < 128 THEN <<cp>>
    ELSE IF cp < 2048 THEN <<192 + (cp \div 64), 128 + (cp % 64)>>
    ELSE <<224 + (cp \div 4096), 128 + ((cp \div 64) % 64), 128 + (cp % 64)>>

\* The Uint8Array the chain prompt | model | HttpResponseOutputParser yields.
RECURSIVE EncodeText(_)
EncodeText(text) ==
    IF text = <<>> THEN <<>> ELSE Utf8(Head(text)) \o EncodeText(Tail(text))

\* String.fromCharCode(code): one UTF-16 code unit, the code taken modulo 2^16.
FromCharCode(code) == code % 65536

successResponse(response) ==
    customMessageData(HttpStatus.OK, MESSAGES.SUCCESS,
                      [i \in 1..Len(response) |-> FromCharCode(response[i])])

\* A variant of exceptionHandling that passes the cause's message on to the
\* caller.
exceptionHandlingEchoesCause(e) ==
    [log |-> e,
     throw |-> HttpException(
                   customMessage(HttpStatus.INTERNAL_SERVER_ERROR, e.message),
                   HttpStatus.INTERNAL_SERVER_ERROR)]

\* Logger.error(e), then throw: what is logged and what is thrown.
exceptionHandling(e) ==
    [log |-> e,
     throw |-> HttpException(
                   customMessage(HttpStatus.INTERNAL_SERVER_ERROR,
                                 MESSAGES.EXTERNAL_SERVER_ERROR),
                   HttpStatus.INTERNAL_SERVER_ERROR)]

\* messages ?? []
MessagesOf(d) == IF "messages" \in DOMAIN d THEN d.messages ELSE <<>>

\* The bodies sent to contextAwareChat and agentChat: any conversation, or none.
MessagesDtos == {[messages |-> m] : m \in MessageSeqs} \cup {[absent |-> TRUE]}

\* A variant of ContextAwareVars whose history keeps the last message too.
ContextAwareVarsKeepsLast(messages) ==
    [chat_history |-> Join([i \in 1..Len(messages) |-> formatMessage(messages[i])], "\n"),
     input |-> messages[Len(messages)].content]

\* The variables contextAwareChat hands to the chain, for a non-empty array.
ContextAwareVars(messages) ==
    LET formattedPreviousMessages ==
            LET previous == Slice(messages, 0, -1)
            IN  [i \in 1..Len(previous) |-> formatMessage(previous[i])]
        currentMessageContent == messages[Len(messages)].content
    IN  [chat_history |-> Join(formattedPreviousMessages, "\n"),
         input |-> currentMessageContent]

---------------------------------------------------------------------------
(* Steps shared by the handlers *)

Idle == pc = "idle"

\* catch (e) { this.exceptionHandling(e) }: the request ends with what
\* exceptionHandling throws, after logging what it logs.
Catch(e) ==
    /\ logged' = Append(logged, exceptionHandling(e).log)
    /\ outcome' = Thrown(exceptionHandling(e).throw)
    /\ pc' = "done"

\* chain.invoke(values) on loadSingleChain(template), called with `calls`
\* completion calls made so far: the prompt is rendered and the completion
\* service is called; a placeholder without a value throws.
InvokeChain(template, values, calls) ==
    /\ vars' = values
    /\ IF TemplateSlots(template) \subseteq DOMAIN values
       THEN /\ prompt' = Render(template, values)
            /\ llmCalls' = calls + 1
            /\ pc' = "completion"
            /\ UNCHANGED <<logged, outcome>>
       ELSE /\ prompt' = ""
            /\ llmCalls' = calls
            /\ Catch(MissingVariable(template, values))

\* A request reaches a handler of the controller.
Arrive(operation, input) ==
    /\ Idle
    /\ pc' = "start"
    /\ op' = operation
    /\ dto' = input
    /\ UNCHANGED <<chainVars, logged, outcome, retrieved, embeddings, vsLog, agentVars>>

\* The caller has received the outcome: the request's state is dropped.
Respond ==
    /\ pc = "done"
    /\ pc' = "idle"
    /\ op' = "none"
    /\ dto' = << >>
    /\ vars' = << >>
    /\ prompt' = ""
    /\ llmCalls' = 0
    /\ generated' = << >>
    /\ logged' = << >>
    /\ outcome' = NoOutcome
    /\ retrieved' = << >>
    /\ embeddings' = << >>
    /\ vsLog' = << >>
    /\ iterations' = 0
    /\ scratchpad' = << >>
    /\ action' = NoAction
    /\ UNCHANGED storeVars

Running(operation, at) == op = operation /\ pc = at

---------------------------------------------------------------------------
(* basicChat and contextAwareChat *)

CtlBasicChat ==
    /\ Idle
    /\ \E q \in Queries : Arrive("basicChat", [user_query |-> q])
    /\ UNCHANGED storeVars

BasicChat ==
    /\ Running("basicChat", "start")
    /\ InvokeChain(TEMPLATES.BASIC_CHAT_TEMPLATE, [input |-> dto.user_query], llmCalls)
    /\ UNCHANGED <<op, dto, generated, retrieved, embeddings, vsLog, agentVars, storeVars>>

CtlContextAwareChat ==
    /\ Idle
    /\ \E d \in MessagesDtos : Arrive("contextAwareChat", d)
    /\ UNCHANGED storeVars

ContextAwareChat ==
    /\ Running("contextAwareChat", "start")
    /\ LET messages == MessagesOf(dto)
       IN  IF Len(messages) = 0
           THEN \* messages[-1] is undefined: reading .content throws
                /\ Catch(TypeError("Cannot read properties of undefined (reading 'content')"))
                /\ UNCHANGED <<vars, prompt, llmCalls>>
           ELSE InvokeChain(TEMPLATES.CONTEXT_AWARE_CHAT_TEMPLATE,
                            ContextAwareVars(messages), llmCalls)
    /\ UNCHANGED <<op, dto, generated, retrieved, embeddings, vsLog, agentVars, storeVars>>

\* The completion service answers the chain of basicChat, contextAwareChat or
\* documentChat: with a text, which the output parser turns into bytes, or
\* with an error.
Completion ==
    /\ pc = "completion"
    /\ op \in {"basicChat", "contextAwareChat", "documentChat"}
    /\ \/ \E text \in GeneratedTexts :
            /\ generated' = text
            /\ outcome' = Returned(successResponse(EncodeText(text)))
            /\ pc' = "done"
            /\ UNCHANGED logged
       \/ /\ Catch(CompletionError)
          /\ UNCHANGED generated
    /\ UNCHANGED <<op, dto, vars, prompt, llmCalls, retrieved, embeddings, vsLog, agentVars, storeVars>>

---------------------------------------------------------------------------
(* Documents, the text splitter and the embedding service *)

\* The text of a sequence of characters, as a string.
RECURSIVE StrOf(_)
StrOf(chars) ==
    IF chars = << >> THEN ""
    ELSE IF Len(chars) = 1 THEN chars[1]
    ELSE LET half == Len(chars) \div 2
         IN  StrOf(SubSeq(chars, 1, half)) \o StrOf(SubSeq(chars, half + 1, Len(chars)))

ChunkSize == 1000

ChunkOverlap == 50

\* The PDF files under PDF_BASE_PATH: the page texts of each.  gap.pdf has a
\* page without text, long.pdf a page of more than ChunkSize characters.
PdfFiles ==
    [f \in {"doc1.pdf", "gap.pdf", "long.pdf"} |->
        CASE f = "doc1.pdf" -> << <<"a", "a", "a">>, <<"a", "b">>, <<"b", "b">> >>
          [] f = "gap.pdf" -> << <<"a">>, << >>, <<"b">> >>
          [] f = "long.pdf" -> << [i \in 1..(ChunkSize + 1) |-> "a"], <<"b">> >>]

\* The file names a request of Spec may carry: a file that is there and one
\* that is not.
FileNames == {"doc1.pdf", "missing.pdf"}

\* The file names an ingestion of IngestSpec may carry: every file, and one
\* that is not there.
IngestFileNames == DOMAIN PdfFiles \cup {"missing.pdf"}

PDF_BASE_PATH == "./src/pdfs"

\* existsSync(path.resolve(file))
existsSync(file) == \E f \in DOMAIN PdfFiles : file = PDF_BASE_PATH \o "/" \o f

\* PDFLoader.load(): one document per page.
PdfLoad(f) ==
    [i \in 1..Len(PdfFiles[f]) |->
        [pageContent |-> PdfFiles[f][i], metadata |-> [loc |-> [pageNumber |-> i]]]]

\* new RecursiveCharacterTextSplitter({chunkSize, chunkOverlap}): the
\* configuration is checked when the splitter is built.
ConfigurationError == [name |-> "Error", message |-> "Cannot have chunkOverlap >= chunkSize"]

AnySplitterConfig(chunkSize, chunkOverlap) == TRUE

ValidSplitterConfig(chunkSize, chunkOverlap) == chunkOverlap < chunkSize

\* A splitter whose windows start right after the one before, sharing nothing.
RECURSIVE SplitTextWithoutOverlap(_, _, _)
SplitTextWithoutOverlap(text, chunkSize, chunkOverlap) ==
    IF Len(text) = 0 \/ chunkOverlap >= chunkSize THEN << >>
    ELSE IF Len(text) <= chunkSize THEN <<text>>
    ELSE <<SubSeq(text, 1, chunkSize)>>
             \o SplitTextWithoutOverlap(SubSeq(text, chunkSize + 1, Len(text)),
                                        chunkSize, chunkOverlap)

\* textSplitter.splitText(text): windows of at most chunkSize characters, each
\* starting chunkSize - chunkOverlap characters after the one before.
RECURSIVE SplitText(_, _, _)
SplitText(text, chunkSize, chunkOverlap) ==
    IF Len(text) = 0 \/ chunkOverlap >= chunkSize THEN << >>
    ELSE IF Len(text) <= chunkSize THEN <<text>>
    ELSE <<SubSeq(text, 1, chunkSize)>>
             \o SplitText(SubSeq(text, chunkSize - chunkOverlap + 1, Len(text)),
                          chunkSize, chunkOverlap)

\* textSplitter.splitDocuments(docs): every document split, its chunks
\* carrying its metadata.
RECURSIVE SplitDocuments(_, _, _)
SplitDocuments(docs, chunkSize, chunkOverlap) ==
    IF docs = << >> THEN << >>
    ELSE LET chunks == SplitText(Head(docs).pageContent, chunkSize, chunkOverlap)
         IN  [i \in 1..Len(chunks) |->
                 [pageContent |-> chunks[i], metadata |-> Head(docs).metadata]]
                 \o SplitDocuments(Tail(docs), chunkSize, chunkOverlap)

\* The loop of uploadPDF over texts, from position `index` (0-based) on.
RECURSIVE PageEmbeddings(_, _)
PageEmbeddings(texts, index) ==
    IF index >= Len(texts) THEN << >>
    ELSE LET page == texts[index + 1]
             splitTexts == SplitText(page.pageContent, ChunkSize, ChunkOverlap)
         IN  [i \in 1..Len(splitTexts) |->
                 [pageContent |-> splitTexts[i], metadata |-> [pageNumber |-> index]]]
                 \o PageEmbeddings(texts, index + 1)

\* A loop that stops one text early.
UploadEmbeddingsStopsEarly(pdf) ==
    LET texts == SplitDocuments(pdf, ChunkSize, ChunkOverlap)
    IN  PageEmbeddings(SubSeq(texts, 1, Len(texts) - 1), 0)

\* The documents uploadPDF hands to addDocuments for a loaded pdf.
UploadEmbeddings(pdf) ==
    PageEmbeddings(SplitDocuments(pdf, ChunkSize, ChunkOverlap), 0)

\* The embedding service: a fixed vector per text.
EmbeddingTable ==
    [t \in {"a", "b", "ab", "aaa", "bb"} |->
        CASE t = "a" -> <<1, 0>>
          [] t = "b" -> <<0, 1>>
          [] t = "ab" -> <<1, 1>>
          [] t = "aaa" -> <<3, 0>>
          [] t = "bb" -> <<0, 2>>]

Embed(text) == IF text \in DOMAIN EmbeddingTable THEN EmbeddingTable[text] ELSE <<1, 1>>

---------------------------------------------------------------------------
(* The backing table and PGVectorStore *)

RECURSIVE DotFrom(_, _, _)
DotFrom(u, v, i) == IF i > Len(u) THEN 0 ELSE u[i] * v[i] + DotFrom(u, v, i + 1)

Dot(u, v) == DotFrom(u, v, 1)

Diff(u, v) == [i \in 1..Len(u) |-> u[i] - v[i]]

\* cosine distance of q to x <= cosine distance of q to y, that is
\* Dot(q,x)/|x| >= Dot(q,y)/|y|, compared without roots.
CosineLeq(q, x, y) ==
    LET a == Dot(q, x)
        b == Dot(q, y)
    IN  IF a >= 0 /\ b < 0 THEN TRUE
        ELSE IF a < 0 /\ b >= 0 THEN FALSE
        ELSE IF a >= 0 THEN a * a * Dot(y, y) >= b * b * Dot(x, x)
        ELSE a * a * Dot(y, y) <= b * b * Dot(x, x)

EuclideanLeq(q, x, y) == Dot(Diff(q, x), Diff(q, x)) <= Dot(Diff(q, y), Diff(q, y))

InnerProductLeq(q, x, y) == Dot(q, x) >= Dot(q, y)

\* distance(q, x) <= distance(q, y) under a distance strategy of pgvector.
DistanceLeq(strategy, q, x, y) ==
    CASE strategy = "cosine" -> CosineLeq(q, x, y)
      [] strategy = "euclidean" -> EuclideanLeq(q, x, y)
      [] strategy = "innerProduct" -> InnerProductLeq(q, x, y)

\* ORDER BY distance: `row` put into `rows`, which are in order, after every
\* row that is not farther from q than it.
RECURSIVE InsertRow(_, _, _, _)
InsertRow(strategy, q, rows, row) ==
    IF rows = << >> THEN <<row>>
    ELSE IF DistanceLeq(strategy, q, Head(rows).vector, row.vector)
         THEN <<Head(rows)>> \o InsertRow(strategy, q, Tail(rows), row)
         ELSE <<row>> \o rows

RECURSIVE OrderByDistance(_, _, _, _)
OrderByDistance(strategy, q, rows, n) ==
    IF n = 0 THEN << >>
    ELSE InsertRow(strategy, q, OrderByDistance(strategy, q, rows, n - 1), rows[n])

\* PGVectorStore.similaritySearch: the k rows nearest to the query's
\* embedding, nearest first, as documents.
PGSimilaritySearch(table, strategy, query, k) ==
    LET ordered == OrderByDistance(strategy, Embed(query), table, Len(table))
        n == IF k < Len(ordered) THEN k ELSE Len(ordered)
    IN  [i \in 1..n |->
            [pageContent |-> ordered[i].content, metadata |-> ordered[i].metadata]]

\* PGVectorStore.addDocuments: one row per document, with a generated id and
\* the embedding of its text.
PGAddDocuments(table, documents) ==
    table \o [i \in 1..Len(documents) |->
                 [id |-> Len(table) + i,
                  vector |-> Embed(StrOf(documents[i].pageContent)),
                  content |-> documents[i].pageContent,
                  metadata |-> documents[i].metadata]]

StoreError == [name |-> "Error", message |-> "connect ECONNREFUSED 127.0.0.1:5434"]

---------------------------------------------------------------------------
(* VectorStoreService *)

config == [tableName |-> "testlangchain", distanceStrategy |-> "cosine"]

\* A variant of similaritySearch that does not pass its limit on, so that
\* PGVectorStore uses its default of 4.
similaritySearchDefaultLimit(query, limit) ==
    PGSimilaritySearch(store, config.distanceStrategy, query, 4)

similaritySearch(query, limit) ==
    PGSimilaritySearch(store, config.distanceStrategy, query, limit)

\* A variant of addDocuments that skips a document whose text and metadata a
\* row of the table already has.
addDocumentsDeduplicates(documents) ==
    PGAddDocuments(store,
        SelectSeq(documents,
            LAMBDA d : \A i \in 1..Len(store) :
                ~(store[i].content = d.pageContent /\ store[i].metadata = d.metadata)))

addDocuments(documents) == PGAddDocuments(store, documents)

---------------------------------------------------------------------------
(* documentChat *)

DocumentChatLimit == 3

\* JSON.stringify of one retrieved document.
JsonDocument(doc) ==
    "{\"pageContent\":\"" \o StrOf(doc.pageContent)
        \o "\",\"metadata\":{\"pageNumber\":" \o ToString(doc.metadata.pageNumber) \o "}}"

\* JSON.stringify of the array of retrieved documents.
JsonStringify(docs) ==
    "[" \o Join([i \in 1..Len(docs) |-> JsonDocument(docs[i])], ",") \o "]"

\* A variant of DocumentVars that leaves the last match out of the context.
DocumentVarsDropsLast(documentContext, user_query) ==
    [context |-> JsonStringify(Slice(documentContext, 0, -1)), question |-> user_query]

\* A variant of DocumentVars that has no context when nothing was retrieved.
DocumentVarsNeedsMatch(documentContext, user_query) ==
    IF documentContext = << >>
    THEN [question |-> user_query]
    ELSE [context |-> JsonStringify(documentContext), question |-> user_query]

\* The variables documentChat hands to the chain.
DocumentVars(documentContext, user_query) ==
    [context |-> JsonStringify(documentContext), question |-> user_query]

CtlDocumentChat ==
    /\ Idle
    /\ \E q \in Queries : Arrive("documentChat", [user_query |-> q])
    /\ UNCHANGED storeVars

\* documentChat calls similaritySearch and awaits it.
DocumentChat ==
    /\ Running("documentChat", "start")
    /\ vsLog' = Append(vsLog, [call |-> "similaritySearch", query |-> dto.user_query,
                               limit |-> DocumentChatLimit])
    /\ pc' = "retrieval"
    /\ UNCHANGED <<op, dto, chainVars, logged, outcome, retrieved, embeddings,
                   agentVars, storeVars>>

\* The Vector Store answers documentChat: with the matches, which go into the
\* chain's variables, or with an error.
DocumentChatRetrieved ==
    /\ Running("documentChat", "retrieval")
    /\ \/ LET documentContext == similaritySearch(dto.user_query, DocumentChatLimit)
          IN  /\ retrieved' = documentContext
              /\ InvokeChain(TEMPLATES.DOCUMENT_CONTEXT_CHAT_TEMPLATE,
                             DocumentVars(documentContext, dto.user_query), llmCalls)
       \/ /\ Catch(StoreError)
          /\ UNCHANGED <<vars, prompt, llmCalls, retrieved>>
    /\ UNCHANGED <<op, dto, generated, embeddings, vsLog, agentVars, storeVars>>

---------------------------------------------------------------------------
(* VectorStoreService.similaritySearch called on its own *)

MaxLimit == 4

VsSimilaritySearch ==
    /\ Idle
    /\ \E q \in Queries, k \in 1..MaxLimit :
          Arrive("similaritySearch", [query |-> q, limit |-> k])
    /\ UNCHANGED storeVars

VsSimilaritySearchDone ==
    /\ Running("similaritySearch", "start")
    /\ vsLog' = Append(vsLog, [call |-> "similaritySearch", query |-> dto.query,
                               limit |-> dto.limit])
    /\ \/ /\ retrieved' = similaritySearch(dto.query, dto.limit)
          /\ outcome' = Returned(similaritySearch(dto.query, dto.limit))
          /\ UNCHANGED logged
       \/ /\ outcome' = Thrown(StoreError)
          /\ UNCHANGED <<logged, retrieved>>
    /\ pc' = "done"
    /\ UNCHANGED <<op, dto, chainVars, embeddings, agentVars, storeVars>>

---------------------------------------------------------------------------
(* uploadPDF *)

MaxIngest == 2

PdfError == [name |-> "Error", message |-> "Invalid PDF structure"]

CtlUploadPDF ==
    /\ Idle
    /\ Len(addLog) < MaxIngest
    /\ \E f \in FileNames : Arrive("uploadPDF", [file |-> f])
    /\ UNCHANGED storeVars

\* POST upload-document, for any of the files.
CtlIngestPDF ==
    /\ Idle
    /\ Len(addLog) < MaxIngest
    /\ \E f \in IngestFileNames : Arrive("uploadPDF", [file |-> f])
    /\ UNCHANGED storeVars

\* The file is looked up; a missing file throws inside the try block.
UploadPDF ==
    /\ Running("uploadPDF", "start")
    /\ IF existsSync(PDF_BASE_PATH \o "/" \o dto.file)
       THEN /\ pc' = "loading"
            /\ UNCHANGED <<logged, outcome>>
       ELSE Catch(BadRequestException("File does not exist."))
    /\ UNCHANGED <<op, dto, chainVars, retrieved, embeddings, vsLog, agentVars, storeVars>>

\* pdfLoader.load() answers; the pages are split and tagged, and
\* addDocuments is called with all of them.
UploadPDFLoaded ==
    /\ Running("uploadPDF", "loading")
    /\ \/ /\ embeddings' = UploadEmbeddings(PdfLoad(dto.file))
          /\ vsLog' = Append(vsLog, [call |-> "addDocuments",
                                     count |-> Len(UploadEmbeddings(PdfLoad(dto.file)))])
          /\ pc' = "adding"
          /\ UNCHANGED <<logged, outcome>>
       \/ /\ Catch(PdfError)
          /\ UNCHANGED <<embeddings, vsLog>>
    /\ UNCHANGED <<op, dto, chainVars, retrieved, agentVars, storeVars>>

\* addDocuments answers: the rows are written, or the store failed.
UploadPDFAdded ==
    /\ Running("uploadPDF", "adding")
    /\ \/ /\ store' = addDocuments(embeddings)
          /\ addLog' = Append(addLog, [file |-> dto.file, documents |-> embeddings])
          /\ UNCHANGED <<pool, db, parked>>
          /\ outcome' = Returned(customMessage(HttpStatus.OK, MESSAGES.SUCCESS))
          /\ pc' = "done"
          /\ UNCHANGED logged
       \/ /\ Catch(StoreError)
          /\ UNCHANGED storeVars
    /\ UNCHANGED <<op, dto, chainVars, retrieved, embeddings, vsLog, agentVars>>

---------------------------------------------------------------------------
(* agentChat *)

\* AgentExecutor's maxIterations, which agentChat leaves at its default.
MaxIterations == 15

vercelRoles == [user |-> "user", assistant |-> "assistant"]

HumanMessage(content) == [type |-> "human", content |-> content]

AIMessage(content) == [type |-> "ai", content |-> content]

formatBaseMessagesAllHuman(message) == HumanMessage(message.content)

formatBaseMessages(message) ==
    IF message.role = vercelRoles.user
    THEN HumanMessage(message.content)
    ELSE AIMessage(message.content)

\* What agentChat hands to agentExecutor.invoke, for a non-empty array.
AgentInputs(messages) ==
    LET previous == Slice(messages, 0, -1)
    IN  [input |-> messages[Len(messages)].content,
         chat_history |-> [i \in 1..Len(previous) |-> formatBaseMessages(previous[i])]]

AgentAnswers == {"final answer", "another answer"}

ToolInputs == {"search terms"}

Observations == {"search result"}

ToolError == [name |-> "Error", message |-> "Tavily request failed"]

\* The output of the executor when its loop ends without a final answer.
StoppedResponse == "Agent stopped due to max iterations."

\* What the plan step returns when the agent is done: AgentFinish.
AgentFinish(output) == [returnValues |-> [output |-> output]]

\* What it returns when the agent wants a tool run: AgentAction.
AgentAction(tool, toolInput) == [tool |-> tool, toolInput |-> toolInput]

AgentResponseWithoutOutput(output) == customMessage(HttpStatus.OK, MESSAGES.SUCCESS)

\* return customMessage(HttpStatus.OK, MESSAGES.SUCCESS, response.output)
AgentResponse(output) == customMessageData(HttpStatus.OK, MESSAGES.SUCCESS, output)

CtlAgentChat ==
    /\ Idle
    /\ \E d \in MessagesDtos : Arrive("agentChat", d)
    /\ UNCHANGED storeVars

\* The synchronous start of agentChat, up to agentExecutor.invoke.
AgentChat ==
    /\ Running("agentChat", "start")
    /\ LET messages == MessagesOf(dto)
       IN  IF Len(messages) = 0
           THEN /\ Catch(TypeError("Cannot read properties of undefined (reading 'content')"))
                /\ UNCHANGED vars
           ELSE /\ vars' = AgentInputs(messages)
                /\ pc' = "think"
                /\ UNCHANGED <<logged, outcome>>
    /\ UNCHANGED <<op, dto, prompt, llmCalls, generated, retrieved, embeddings, vsLog,
                   agentVars, storeVars>>

\* Think: the completion service, in function-calling mode, returns a final
\* answer or a tool invocation, or fails.
AgentThink ==
    /\ Running("agentChat", "think")
    /\ llmCalls' = llmCalls + 1
    /\ \/ \E answer \in AgentAnswers :
            /\ action' = AgentFinish(answer)
            /\ outcome' = Returned(AgentResponse(answer))
            /\ pc' = "done"
            /\ UNCHANGED logged
       \/ \E input \in ToolInputs :
            /\ action' = AgentAction("tavily_search_results_json", input)
            /\ pc' = "act"
            /\ UNCHANGED <<logged, outcome>>
       \/ /\ Catch(CompletionError)
          /\ UNCHANGED action
    /\ UNCHANGED <<op, dto, vars, prompt, generated, retrieved, embeddings, vsLog,
                   iterations, scratchpad, storeVars>>

\* An Act step that keeps only the step just made in the scratchpad.
AgentActKeepsLastStep ==
    /\ Running("agentChat", "act")
    /\ \/ \E observation \in Observations :
            /\ scratchpad' = <<[action |-> action, observation |-> observation]>>
            /\ iterations' = iterations + 1
            /\ IF iterations + 1 < MaxIterations
               THEN /\ pc' = "think"
                    /\ UNCHANGED outcome
               ELSE /\ pc' = "done"
                    /\ outcome' = Returned(AgentResponse(StoppedResponse))
            /\ UNCHANGED logged
       \/ /\ Catch(ToolError)
          /\ UNCHANGED <<iterations, scratchpad>>
    /\ UNCHANGED <<op, dto, chainVars, retrieved, embeddings, vsLog, action, storeVars>>

\* Act: the tool answers; the step joins the scratchpad, and the loop goes on
\* while iterations < maxIterations, else the executor returns its stopped
\* response, which agentChat returns as its answer.
AgentAct ==
    /\ Running("agentChat", "act")
    /\ \/ \E observation \in Observations :
            /\ scratchpad' = Append(scratchpad, [action |-> action, observation |-> observation])
            /\ iterations' = iterations + 1
            /\ IF iterations + 1 < MaxIterations
               THEN /\ pc' = "think"
                    /\ UNCHANGED outcome
               ELSE /\ pc' = "done"
                    /\ outcome' = Returned(AgentResponse(StoppedResponse))
            /\ UNCHANGED logged
       \/ /\ Catch(ToolError)
          /\ UNCHANGED <<iterations, scratchpad>>
    /\ UNCHANGED <<op, dto, chainVars, retrieved, embeddings, vsLog, action, storeVars>>

---------------------------------------------------------------------------
(* Requests in flight at the same time *)

\* What a call of a handler works with: its argument and its local
\* constants, and where it stands.
Context ==
    [pc |-> pc, op |-> op, dto |-> dto, vars |-> vars, prompt |-> prompt,
     llmCalls |-> llmCalls, generated |-> generated, logged |-> logged,
     outcome |-> outcome, retrieved |-> retrieved, embeddings |-> embeddings,
     vsLog |-> vsLog, iterations |-> iterations, scratchpad |-> scratchpad,
     action |-> action]

\* No call.
IdleContext ==
    [pc |-> "idle", op |-> "none", dto |-> << >>, vars |-> << >>, prompt |-> "",
     llmCalls |-> 0, generated |-> << >>, logged |-> << >>, outcome |-> NoOutcome,
     retrieved |-> << >>, embeddings |-> << >>, vsLog |-> << >>, iterations |-> 0,
     scratchpad |-> << >>, action |-> NoAction]

\* A service that keeps the messages and the scratchpad it works on in
\* fields of its own, where the call that ran last has left them.
ResumedWithSharedFields(own, other) ==
    [own EXCEPT !.vars = other.vars, !.scratchpad = other.scratchpad]

\* What a call finds when it goes on after an await, `other` being the call
\* that ran meanwhile: its own argument and constants as it left them.  The
\* service has no field but vectorStoreService.
ResumedContext(own, other) == own

\* The requests that are sent while another one is in flight.
ConcurrentRequests ==
    {[op |-> "basicChat", dto |-> [user_query |-> "a"]],
     [op |-> "documentChat", dto |-> [user_query |-> "b"]],
     [op |-> "contextAwareChat",
      dto |-> [messages |-> <<[role |-> "user", content |-> "A"],
                              [role |-> "assistant", content |-> "B"],
                              [role |-> "user", content |-> "C"]>>]],
     [op |-> "contextAwareChat",
      dto |-> [messages |-> <<[role |-> "user", content |-> "B"]>>]],
     [op |-> "agentChat",
      dto |-> [messages |-> <<[role |-> "assistant", content |-> "C"],
                              [role |-> "user", content |-> "B"]>>]],
     [op |-> "uploadPDF", dto |-> [file |-> "doc1.pdf"]]}

\* A request reaches the controller, whatever else is in flight.
CtlConcurrent ==
    /\ Idle
    /\ \E r \in ConcurrentRequests :
          /\ r.op = "uploadPDF" => Len(addLog) < MaxIngest
          /\ Arrive(r.op, r.dto)
    /\ UNCHANGED storeVars

\* The call that runs waits at its await (or has not begun, or is over), and
\* the other call goes on.
Yield ==
    /\ pc # "idle" \/ parked.pc # "idle"
    /\ parked' = Context
    /\ LET resumed == ResumedContext(parked, Context)
       IN  /\ pc' = resumed.pc
           /\ op' = resumed.op
           /\ dto' = resumed.dto
           /\ vars' = resumed.vars
           /\ prompt' = resumed.prompt
           /\ llmCalls' = resumed.llmCalls
           /\ generated' = resumed.generated
           /\ logged' = resumed.logged
           /\ outcome' = resumed.outcome
           /\ retrieved' = resumed.retrieved
           /\ embeddings' = resumed.embeddings
           /\ vsLog' = resumed.vsLog
           /\ iterations' = resumed.iterations
           /\ scratchpad' = resumed.scratchpad
           /\ action' = resumed.action
    /\ UNCHANGED <<store, addLog, pool, db>>

---------------------------------------------------------------------------
(* VectorStoreService: the pool, onModuleInit and onModuleDestroy *)

\* this.pool before onModuleInit has run.
NoPool == [state |-> "none", connects |-> 0, checkedOut |-> 0, released |-> 0]

\* new pg.Pool(postgresConnectionOptions)
NewPool == [state |-> "open", connects |-> 0, checkedOut |-> 0, released |-> 0]

\* await this.pool.connect(): a client is checked out.
PoolConnect(p) == [p EXCEPT !.connects = @ + 1, !.checkedOut = @ + 1]

\* client.release()
ClientRelease(p) == [p EXCEPT !.checkedOut = @ - 1, !.released = @ + 1]

\* await this.pool.end()
PoolEnd(p) == [p EXCEPT !.state = "ended"]

\* A release placed after the last query instead of in a finally block.
ReleaseAfterQueries(p, threw) == IF threw THEN p ELSE ClientRelease(p)

\* finally { client.release() }: how ensureDatabaseSchema leaves its try
\* block, whether a query threw or not.
ensureDatabaseSchemaFinally(p, threw) == ClientRelease(p)

\* The pool once onModuleInit has returned.
ReadyPool == ensureDatabaseSchemaFinally(PoolConnect(NewPool), FALSE)

\* What the database can have: the two extensions and the table.
DbObjects == {"uuid-ossp", "vector", config.tableName}

FreshDb == [x \in DbObjects |-> FALSE]

InitializedDb == [x \in DbObjects |-> TRUE]

\* CREATE EXTENSION IF NOT EXISTS <name>
CreateExtensionIfNotExists(database, name) == [database EXCEPT ![name] = TRUE]

\* DROP TABLE IF EXISTS followed by CREATE TABLE: the rows are gone.
CreateTableAnew(database, rows) ==
    IF database["uuid-ossp"] /\ database["vector"]
    THEN [ok |-> TRUE, database |-> [database EXCEPT ![config.tableName] = TRUE],
          rows |-> << >>]
    ELSE [ok |-> FALSE, database |-> database, rows |-> rows]

\* CREATE TABLE IF NOT EXISTS testlangchain (id UUID ... DEFAULT
\* uuid_generate_v4(), vector VECTOR, ...): nothing happens to a table that
\* exists; a new table needs the function and the type of the extensions.
CreateTableIfNotExists(database, rows) ==
    IF database[config.tableName]
    THEN [ok |-> TRUE, database |-> database, rows |-> rows]
    ELSE IF database["uuid-ossp"] /\ database["vector"]
    THEN [ok |-> TRUE, database |-> [database EXCEPT ![config.tableName] = TRUE],
          rows |-> << >>]
    ELSE [ok |-> FALSE, database |-> database, rows |-> rows]

SchemaError == [name |-> "error", message |-> "type \"vector\" does not exist"]

\* onModuleInit, up to the first await: the pool is made and
\* ensureDatabaseSchema asks it for a client.
OnModuleInit ==
    /\ pc = "constructed"
    /\ pc' = "connect"
    /\ op' = "onModuleInit"
    /\ pool' = NewPool
    /\ UNCHANGED <<dto, chainVars, logged, outcome, retrieved, embeddings, vsLog, agentVars,
                   store, addLog, db, parked>>

\* pool.connect() answers: a client, and the first query is sent; or an
\* error, which leaves ensureDatabaseSchema before its try block.
EnsureConnected ==
    /\ Running("onModuleInit", "connect")
    /\ \/ /\ pool' = PoolConnect(pool)
          /\ pc' = "uuid-ossp"
          /\ UNCHANGED outcome
       \/ /\ outcome' = Thrown(StoreError)
          /\ pc' = "failed"
          /\ UNCHANGED pool
    /\ UNCHANGED <<op, dto, chainVars, logged, retrieved, embeddings, vsLog, agentVars,
                   store, addLog, db, parked>>

\* One of the two CREATE EXTENSION queries answers: the next query is sent,
\* or the error leaves through the finally block.
EnsureExtension ==
    /\ op = "onModuleInit"
    /\ pc \in {"uuid-ossp", "vector"}
    /\ \/ /\ db' = CreateExtensionIfNotExists(db, pc)
          /\ pc' = IF pc = "uuid-ossp" THEN "vector" ELSE "table"
          /\ UNCHANGED <<pool, outcome>>
       \/ /\ pool' = ensureDatabaseSchemaFinally(pool, TRUE)
          /\ outcome' = Thrown(StoreError)
          /\ pc' = "failed"
          /\ UNCHANGED db
    /\ UNCHANGED <<op, dto, chainVars, logged, retrieved, embeddings, vsLog, agentVars,
                   store, addLog, parked>>

\* The CREATE TABLE query answers: the client is released, the
\* PGVectorStore is built and onModuleInit returns; or the error leaves
\* through the finally block.
EnsureTable ==
    /\ Running("onModuleInit", "table")
    /\ LET created == CreateTableIfNotExists(db, store)
       IN  \/ /\ created.ok
              /\ db' = created.database
              /\ store' = created.rows
              /\ pool' = ensureDatabaseSchemaFinally(pool, FALSE)
              /\ pc' = "idle"
              /\ UNCHANGED outcome
           \/ /\ pool' = ensureDatabaseSchemaFinally(pool, TRUE)
              /\ outcome' = Thrown(IF created.ok THEN StoreError ELSE SchemaError)
              /\ pc' = "failed"
              /\ UNCHANGED <<db, store>>
    /\ UNCHANGED <<op, dto, chainVars, logged, retrieved, embeddings, vsLog, agentVars,
                   addLog, parked>>

\* onModuleDestroy, when the application closes: after a start that
\* succeeded, between requests, or after one that failed.
OnModuleDestroy ==
    /\ pc \in {"idle", "failed"}
    /\ pool.state = "open"
    /\ pool' = PoolEnd(pool)
    /\ pc' = "closed"
    /\ op' = "onModuleDestroy"
    /\ UNCHANGED <<dto, chainVars, logged, outcome, retrieved, embeddings, vsLog, agentVars,
                   store, addLog, db, parked>>

\* The process is gone and a new one starts: a new service, the same
\* database.
Restart ==
    /\ pc \in {"closed", "failed"}
    /\ pc' = "constructed"
    /\ op' = "none"
    /\ pool' = NoPool
    /\ outcome' = NoOutcome
    /\ UNCHANGED <<dto, chainVars, logged, retrieved, embeddings, vsLog, agentVars,
                   store, addLog, db, parked>>

---------------------------------------------------------------------------
(* The text splitter used on its own, over every configuration *)

MaxSplitLen == 4

MaxChunkSize == 3

SplitChars == {"a", "b"}

SplitTexts == UNION {[1..n -> SplitChars] : n \in 0..MaxSplitLen}

\* A text and a configuration, valid or not.
SplitInputs ==
    [text : SplitTexts, chunkSize : 1..MaxChunkSize, chunkOverlap : 0..MaxChunkSize]

\* The splitter is built: an invalid configuration throws at once.
NewTextSplitter ==
    /\ Running("splitText", "start")
    /\ IF ValidSplitterConfig(dto.chunkSize, dto.chunkOverlap)
       THEN /\ pc' = "configured"
            /\ UNCHANGED outcome
       ELSE /\ pc' = "done"
            /\ outcome' = Thrown(ConfigurationError)
    /\ UNCHANGED <<op, dto, chainVars, logged, retrieved, embeddings, vsLog, agentVars,
                   storeVars>>

\* splitText(text) on the splitter built: the chunks.
SplitTextDone ==
    /\ Running("splitText", "configured")
    /\ embeddings' = SplitText(dto.text, dto.chunkSize, dto.chunkOverlap)
    /\ outcome' = Returned(SplitText(dto.text, dto.chunkSize, dto.chunkOverlap))
    /\ pc' = "done"
    /\ UNCHANGED <<op, dto, chainVars, logged, retrieved, vsLog, agentVars, storeVars>>

---------------------------------------------------------------------------
(* The specification *)

Init ==
    /\ pc = "idle"
    /\ op = "none"
    /\ dto = << >>
    /\ vars = << >>
    /\ prompt = ""
    /\ llmCalls = 0
    /\ generated = << >>
    /\ logged = << >>
    /\ outcome = NoOutcome
    /\ retrieved = << >>
    /\ embeddings = << >>
    /\ vsLog = << >>
    /\ store = << >>
    /\ addLog = << >>
    /\ pool = ReadyPool
    /\ db = InitializedDb
    /\ iterations = 0
    /\ scratchpad = << >>
    /\ action = NoAction
    /\ parked = IdleContext

Next ==
    \/ CtlBasicChat
    \/ BasicChat
    \/ CtlContextAwareChat
    \/ ContextAwareChat
    \/ Completion
    \/ CtlDocumentChat
    \/ DocumentChat
    \/ DocumentChatRetrieved
    \/ VsSimilaritySearch
    \/ VsSimilaritySearchDone
    \/ CtlUploadPDF
    \/ UploadPDF
    \/ UploadPDFLoaded
    \/ UploadPDFAdded
    \/ CtlAgentChat
    \/ AgentChat
    \/ AgentThink
    \/ AgentAct
    \/ Respond

Spec == Init /\ [][Next]_allVars

\* Ingestion alone: uploadPDF requests for every file, one after another,
\* and searches of what they stored.
IngestNext ==
    \/ CtlIngestPDF
    \/ UploadPDF
    \/ UploadPDFLoaded
    \/ UploadPDFAdded
    \/ VsSimilaritySearch
    \/ VsSimilaritySearchDone
    \/ Respond

IngestSpec == Init /\ [][IngestNext]_allVars

\* Two requests in flight: each step is the part of a handler between two
\* awaits, and at an await the other request may go on.
ConcurrentNext ==
    \/ CtlConcurrent
    \/ Yield
    \/ BasicChat
    \/ ContextAwareChat
    \/ Completion
    \/ DocumentChat
    \/ DocumentChatRetrieved
    \/ UploadPDF
    \/ UploadPDFLoaded
    \/ UploadPDFAdded
    \/ AgentChat
    \/ AgentThink
    \/ AgentAct
    \/ Respond

ConcurrentSpec == Init /\ [][ConcurrentNext]_allVars

\* The life of the service: a new database, then starts, requests that
\* ingest, and stops, again and again.
LifecycleInit ==
    /\ pc = "constructed"
    /\ op = "none"
    /\ dto = << >>
    /\ vars = << >>
    /\ prompt = ""
    /\ llmCalls = 0
    /\ generated = << >>
    /\ logged = << >>
    /\ outcome = NoOutcome
    /\ retrieved = << >>
    /\ embeddings = << >>
    /\ vsLog = << >>
    /\ store = << >>
    /\ addLog = << >>
    /\ pool = NoPool
    /\ db = FreshDb
    /\ iterations = 0
    /\ scratchpad = << >>
    /\ action = NoAction
    /\ parked = IdleContext

LifecycleNext ==
    \/ OnModuleInit
    \/ EnsureConnected
    \/ EnsureExtension
    \/ EnsureTable
    \/ OnModuleDestroy
    \/ Restart
    \/ CtlIngestPDF
    \/ UploadPDF
    \/ UploadPDFLoaded
    \/ UploadPDFAdded
    \/ Respond

LifecycleSpec == LifecycleInit /\ [][LifecycleNext]_allVars

\* The text splitter alone: a text and a configuration are given, the
\* splitter is built and splits the text.
SplitterInit ==
    /\ pc = "start"
    /\ op = "splitText"
    /\ dto \in SplitInputs
    /\ vars = << >>
    /\ prompt = ""
    /\ llmCalls = 0
    /\ generated = << >>
    /\ logged = << >>
    /\ outcome = NoOutcome
    /\ retrieved = << >>
    /\ embeddings = << >>
    /\ vsLog = << >>
    /\ store = << >>
    /\ addLog = << >>
    /\ pool = ReadyPool
    /\ db = InitializedDb
    /\ iterations = 0
    /\ scratchpad = << >>
    /\ action = NoAction
    /\ parked = IdleContext

SplitterNext ==
    \/ NewTextSplitter
    \/ SplitTextDone

SplitterSpec == SplitterInit /\ [][SplitterNext]_allVars

---------------------------------------------------------------------------
(* The kinds of outcome a caller can tell apart *)

IsSuccess(o) == o.type = "return"

\* A client error: an exception with a 4xx status.
IsClientError(o) == o.type = "throw" /\ o.error.status \in 400..499

\* The generic upstream failure: status 500 with EXTERNAL_SERVER_ERROR.
IsDependencyError(o) ==
    /\ o.type = "throw"
    /\ o.error.status = HttpStatus.INTERNAL_SERVER_ERROR
    /\ o.error.response.message = MESSAGES.EXTERNAL_SERVER_ERROR

\* An error outcome of its own kind: neither of the two above.
IsConvergenceError(o) ==
    o.type = "throw" /\ ~IsClientError(o) /\ ~IsDependencyError(o)

ChatOps == {"basicChat", "contextAwareChat", "documentChat"}

---------------------------------------------------------------------------
(* C1 *)

\* The lines "<role>: <content>" of messages i..Len-1, each but the last
\* followed by a newline.
RECURSIVE HistoryLines(_, _)
HistoryLines(messages, i) ==
    IF i >= Len(messages) THEN ""
    ELSE messages[i].role \o ": " \o messages[i].content
             \o (IF i + 1 < Len(messages) THEN "\n" ELSE "")
             \o HistoryLines(messages, i + 1)

ExampleConversation ==
    << [role |-> "user", content |-> "A"],
       [role |-> "assistant", content |-> "B"],
       [role |-> "user", content |-> "C"] >>

\* C1: once contextAwareChat has called the chain for a non-empty message
\* sequence, chat_history is the lines "<role>: <content>" of all messages
\* but the last, in order, joined by newlines (the empty string for a single
\* message), and input is the content of the last message; the example
\* conversation gives "user: A\nassistant: B" and "C".
C1_HistoryAndInput ==
    (op = "contextAwareChat" /\ pc \in {"completion", "done"} /\ Len(MessagesOf(dto)) > 0)
        => LET messages == MessagesOf(dto)
           IN  /\ vars.chat_history = HistoryLines(messages, 1)
               /\ vars.input = messages[Len(messages)].content
               /\ Len(messages) = 1 => vars.chat_history = ""
               /\ messages = ExampleConversation
                      => vars = [chat_history |-> "user: A\nassistant: B", input |-> "C"]

C1_Witness ==
    /\ op = "contextAwareChat"
    /\ pc = "completion"
    /\ MessagesOf(dto) = ExampleConversation
    /\ vars.chat_history = "user: A\nassistant: B"
    /\ vars.input = "C"

---------------------------------------------------------------------------
(* C2 *)

ExternalServiceError ==
    [name |-> "HttpException",
     response |-> [statusCode |-> 500, message |-> "EXTERNAL_SERVER_ERROR"],
     status |-> 500]

InternalCauses ==
    {CompletionError, StoreError,
     TypeError("Cannot read properties of undefined (reading 'content')")}

\* C2: a request of basicChat, contextAwareChat or documentChat ends either
\* with a returned answer and nothing logged, or, after a failure, with the one
\* external service error (HttpException 500, EXTERNAL_SERVER_ERROR); the cause
\* of the failure is what was logged, and the error the caller receives has
\* only the status code and the generic message, which is no cause's message.
C2_FailuresSurfaceAsServiceError ==
    (op \in ChatOps /\ pc = "done")
        => \/ IsSuccess(outcome) /\ logged = << >>
           \/ /\ outcome = Thrown(ExternalServiceError)
              /\ Len(logged) = 1
              /\ logged[1] \in InternalCauses
              /\ DOMAIN outcome.error.response = {"statusCode", "message"}
              /\ \A cause \in InternalCauses :
                     outcome.error.response.message # cause.message

C2_Witness ==
    /\ op = "documentChat"
    /\ pc = "done"
    /\ logged = <<CompletionError>>
    /\ llmCalls = 1
    /\ outcome = Thrown(ExternalServiceError)

---------------------------------------------------------------------------
(* C3 *)

\* C3: when the file passed to uploadPDF does not exist, the caller receives
\* a client error, not the generic upstream failure.
C3_MissingFileIsClientError ==
    (op = "uploadPDF" /\ pc = "done" /\ ~existsSync(PDF_BASE_PATH \o "/" \o dto.file))
        => IsClientError(outcome) /\ ~IsDependencyError(outcome)

---------------------------------------------------------------------------
(* C4 *)

\* Every Think of the finished agentChat request asked for a tool, and every
\* tool call answered: each completion call was followed by a finished Act.
EveryThinkRequestedATool ==
    /\ op = "agentChat"
    /\ pc = "done"
    /\ logged = << >>
    /\ llmCalls > 0
    /\ llmCalls = Len(scratchpad)

\* C4: when the completion service asks for a tool at every Think, agentChat
\* ends at exactly the iteration cap, with an error outcome of its own kind
\* that is neither a success answer nor the generic upstream failure.
C4_ConvergenceErrorAtCap ==
    EveryThinkRequestedATool
        => /\ iterations = MaxIterations
           /\ IsConvergenceError(outcome)
           /\ ~IsSuccess(outcome)
           /\ ~IsDependencyError(outcome)

---------------------------------------------------------------------------
(* C5 *)

\* C5: contextAwareChat and agentChat, called with an empty or absent message
\* sequence, end with a client error, not the generic upstream failure, and
\* never call the completion service.
C5_EmptyConversationIsClientError ==
    (op \in {"contextAwareChat", "agentChat"} /\ pc = "done" /\ Len(MessagesOf(dto)) = 0)
        => /\ IsClientError(outcome)
           /\ ~IsDependencyError(outcome)
           /\ llmCalls = 0

---------------------------------------------------------------------------
(* C6 *)

\* The context block of a sequence of matches, built match by match from the
\* left.
RECURSIVE ContextBlockFrom(_, _)
ContextBlockFrom(docs, i) ==
    IF i > Len(docs) THEN "]"
    ELSE (IF i = 1 THEN "" ELSE ",")
             \o "{\"pageContent\":\"" \o StrOf(docs[i].pageContent) \o "\",\"metadata\":"
             \o "{\"pageNumber\":" \o ToString(docs[i].metadata.pageNumber) \o "}}"
             \o ContextBlockFrom(docs, i + 1)

ContextBlock(docs) == "[" \o ContextBlockFrom(docs, 1)

\* C6: a documentChat request makes exactly one Vector Store call,
\* similaritySearch(query, 3) with the caller's query; once it has answered,
\* the context handed to the document template is the block of exactly the
\* returned matches, in the order returned, and the question is the query.
C6_OneSearchAndContextInRankingOrder ==
    (op = "documentChat" /\ pc \in {"retrieval", "completion", "done"})
        => /\ vsLog = << [call |-> "similaritySearch", query |-> dto.user_query, limit |-> 3] >>
           /\ llmCalls = 1
                  => /\ DOMAIN vars = {"context", "question"}
                     /\ vars.context = ContextBlock(retrieved)
                     /\ vars.question = dto.user_query
                     /\ prompt = "Answer the question based only on the following context:\n   "
                                     \o ContextBlock(retrieved) \o "\n   \n   Question: "
                                     \o dto.user_query

C6_Witness ==
    /\ op = "documentChat"
    /\ pc = "completion"
    /\ dto.user_query = "b"
    /\ Len(store) = 3
    /\ Len(retrieved) = 3
    /\ vars.context =
           "[{\"pageContent\":\"bb\",\"metadata\":{\"pageNumber\":2}},"
               \o "{\"pageContent\":\"ab\",\"metadata\":{\"pageNumber\":1}},"
               \o "{\"pageContent\":\"aaa\",\"metadata\":{\"pageNumber\":0}}]"

---------------------------------------------------------------------------
(* C7 *)

\* C7: against an empty Vector Store, a documentChat request whose retrieval
\* answered has the context block of no match, "[]", and has called the
\* completion service; it ends with the completion's answer as a success
\* unless the completion service itself failed.
C7_EmptyStoreStillAnswers ==
    (op = "documentChat" /\ store = << >> /\ pc \in {"completion", "done"}
        /\ logged # <<StoreError>>)
        => /\ retrieved = << >>
           /\ DOMAIN vars = {"context", "question"}
           /\ vars.context = "[]"
           /\ llmCalls = 1
           /\ pc = "done"
                  => \/ /\ IsSuccess(outcome)
                        /\ outcome.value.statusCode = 200
                        /\ outcome.value.data =
                               [i \in 1..Len(EncodeText(generated)) |-> EncodeText(generated)[i]]
                     \/ logged = <<CompletionError>>

C7_Witness ==
    /\ op = "documentChat"
    /\ pc = "done"
    /\ store = << >>
    /\ IsSuccess(outcome)
    /\ vars.context = "[]"
    /\ generated = <<65, 65>>

---------------------------------------------------------------------------
(* C8 *)

\* A similaritySearch of the request in flight has answered.
SearchAnswered ==
    \/ op = "similaritySearch" /\ pc = "done" /\ IsSuccess(outcome)
    \/ op = "documentChat" /\ pc \in {"completion", "done"} /\ llmCalls = 1

SearchQuery == IF op = "similaritySearch" THEN dto.query ELSE dto.user_query

SearchLimit == IF op = "similaritySearch" THEN dto.limit ELSE 3

\* The embedding of a returned match.
VectorOf(doc) == Embed(StrOf(doc.pageContent))

\* The square of the cosine similarity of two vectors with no negative
\* component, as the pair <<numerator, denominator>>.
CosineSquared(q, x) == <<Dot(q, x) * Dot(q, x), Dot(q, q) * Dot(x, x)>>

\* x is at least as near to q as y is, by cosine distance (1 - similarity),
\* for vectors with no negative component.
NotFarther(q, x, y) ==
    CosineSquared(q, x)[1] * CosineSquared(q, y)[2]
        >= CosineSquared(q, y)[1] * CosineSquared(q, x)[2]

\* C8: similaritySearch(q, k), k > 0, returns at most k results, in order of
\* non-decreasing cosine distance to q.
C8_AtMostKNearestFirst ==
    SearchAnswered
        => /\ SearchLimit > 0
           /\ Len(retrieved) <= SearchLimit
           /\ \A i, j \in 1..Len(retrieved) :
                  i < j => NotFarther(Embed(SearchQuery), VectorOf(retrieved[i]),
                                      VectorOf(retrieved[j]))

C8_Witness ==
    /\ op = "similaritySearch"
    /\ pc = "done"
    /\ IsSuccess(outcome)
    /\ dto = [query |-> "a", limit |-> 3]
    /\ Len(store) = 6
    /\ [i \in 1..Len(retrieved) |-> StrOf(retrieved[i].pageContent)] = <<"aaa", "aaa", "ab">>

---------------------------------------------------------------------------
(* C9 *)

\* How many elements of a sequence satisfy a test.
Count(seq, Test(_)) == Cardinality({i \in 1..Len(seq) : Test(seq[i])})

SameChunk(text, metadata, doc) == doc.pageContent = text /\ doc.metadata = metadata

\* The rows of the table holding a chunk.
RowsOf(doc) ==
    Count(store, LAMBDA row : row.content = doc.pageContent /\ row.metadata = doc.metadata)

\* How often a chunk was handed to addDocuments, over all ingestions.
RECURSIVE TimesIngested(_, _)
TimesIngested(doc, n) ==
    IF n = 0 THEN 0
    ELSE Count(addLog[n].documents,
               LAMBDA d : SameChunk(doc.pageContent, doc.metadata, d))
             + TimesIngested(doc, n - 1)

\* The same file was ingested twice.
IngestedTwice(f) == Count(addLog, LAMBDA e : e.file = f) = 2

\* C9: ingestion never deduplicates: the table has one row, with an id of its
\* own, for every chunk of every ingestion, so after ingesting a document
\* twice every chunk of it has two rows; and a search then returns the
\* duplicates as separate matches, nearest first: a row is left out of the
\* results only when k results at least as near were returned.
C9_NoDeduplication ==
    /\ \A n \in 1..Len(addLog) : \A k \in 1..Len(addLog[n].documents) :
           RowsOf(addLog[n].documents[k]) = TimesIngested(addLog[n].documents[k], Len(addLog))
    /\ Cardinality({store[i].id : i \in 1..Len(store)}) = Len(store)
    /\ \A f \in FileNames : IngestedTwice(f) =>
           /\ Len(store) = 2 * Len(UploadEmbeddings(PdfLoad(f)))
           /\ \A k \in 1..Len(UploadEmbeddings(PdfLoad(f))) :
                  RowsOf(UploadEmbeddings(PdfLoad(f))[k]) = 2
    /\ SearchAnswered =>
           /\ Len(retrieved) = (IF SearchLimit < Len(store) THEN SearchLimit ELSE Len(store))
           /\ \A i, j \in 1..Len(retrieved) :
                  i < j => NotFarther(Embed(SearchQuery), VectorOf(retrieved[i]),
                                      VectorOf(retrieved[j]))
           /\ \A r \in 1..Len(store) :
                  LET doc == [pageContent |-> store[r].content, metadata |-> store[r].metadata]
                  IN  \/ Count(retrieved, LAMBDA d : d = doc) = RowsOf(doc)
                      \/ /\ Count(retrieved, LAMBDA d : d = doc) < RowsOf(doc)
                         /\ Len(retrieved) = SearchLimit
                         /\ NotFarther(Embed(SearchQuery), VectorOf(retrieved[Len(retrieved)]),
                                       store[r].vector)

C9_Witness ==
    /\ IngestedTwice("doc1.pdf")
    /\ Len(store) = 6
    /\ op = "similaritySearch"
    /\ pc = "done"
    /\ IsSuccess(outcome)
    /\ dto = [query |-> "b", limit |-> 4]
    /\ retrieved = << [pageContent |-> <<"b", "b">>, metadata |-> [pageNumber |-> 2]],
                      [pageContent |-> <<"b", "b">>, metadata |-> [pageNumber |-> 2]],
                      [pageContent |-> <<"a", "b">>, metadata |-> [pageNumber |-> 1]],
                      [pageContent |-> <<"a", "b">>, metadata |-> [pageNumber |-> 1]] >>

---------------------------------------------------------------------------
(* C10 *)

\* C10: on success basicChat, contextAwareChat and documentChat return the
\* text the completion service generated, unchanged.
C10_ReturnsGeneratedText ==
    (op \in ChatOps /\ pc = "done" /\ IsSuccess(outcome))
        => outcome.value.data = generated

---------------------------------------------------------------------------
(* C11: the chunks of a text *)

\* The chunks put together again: the first chunk, then of every later chunk
\* what follows the `chunkOverlap` characters it shares with the one before.
RECURSIVE Reconstruct(_, _)
Reconstruct(chunks, chunkOverlap) ==
    IF chunks = << >> THEN << >>
    ELSE IF Len(chunks) = 1 THEN chunks[1]
    ELSE LET front == SubSeq(chunks, 1, Len(chunks) - 1)
             last == chunks[Len(chunks)]
         IN  Reconstruct(front, chunkOverlap) \o SubSeq(last, chunkOverlap + 1, Len(last))

SplitReturned == op = "splitText" /\ pc = "done" /\ IsSuccess(outcome)

---------------------------------------------------------------------------
(* C12: an invalid configuration *)

\* C12: with chunkOverlap >= chunkSize the splitter is never built: the
\* first step ends the run with the configuration error, and no chunk is
\* ever produced.
C12_InvalidConfigurationFailsFast ==
    (op = "splitText" /\ dto.chunkOverlap >= dto.chunkSize /\ pc # "start") =>
        /\ pc = "done"
        /\ outcome = Thrown(ConfigurationError)
        /\ embeddings = << >>

C12_Witness ==
    /\ op = "splitText"
    /\ pc = "done"
    /\ dto = [text |-> <<"a", "b">>, chunkSize |-> 1, chunkOverlap |-> 1]
    /\ outcome = Thrown(ConfigurationError)

---------------------------------------------------------------------------
(* C13: a final answer ends the run *)

\* The run of agentChat ended with a final answer of a Think step.
AgentFinished == op = "agentChat" /\ pc = "done" /\ DOMAIN action = {"returnValues"}

\* C13: when the Think step number n returns a final answer, n is not above
\* the cap, the run ends in that step, the caller receives that answer as a
\* success, and n - 1 tool invocations were made before it: the scratchpad
\* holds n - 1 steps and is left as it is.  Once the run has ended this way
\* the only step is the response to the caller: no tool is invoked any more.
C13_FinalAnswerEndsTheRun ==
    [][/\ (Running("agentChat", "think") /\ DOMAIN action' = {"returnValues"}) =>
             /\ pc' = "done"
             /\ outcome' = Returned([statusCode |-> 200, message |-> "SUCCESS",
                                      data |-> action'.returnValues.output])
             /\ llmCalls' <= MaxIterations
             /\ scratchpad' = scratchpad
             /\ Len(scratchpad) = llmCalls' - 1
             /\ iterations = llmCalls' - 1
       /\ AgentFinished => (pc' = "idle" /\ scratchpad' = << >>)]_allVars

\* The third Think step returned a final answer, after two tool invocations.
C13_Witness ==
    /\ AgentFinished
    /\ llmCalls = 3
    /\ Len(scratchpad) = 2
    /\ action.returnValues.output = "another answer"
    /\ outcome = Returned([statusCode |-> 200, message |-> "SUCCESS",
                           data |-> "another answer"])

---------------------------------------------------------------------------
(* C14: Think and Act alternate *)

AgentRunning == op = "agentChat" /\ pc \in {"start", "think", "act"}

\* Where the run stands: after i completed Act steps the scratchpad has i
\* steps; before a Think as many Think steps as Act steps were made, and
\* while the tool runs one more, whose request is the one tool call in flight.
AgentAlternation ==
    AgentRunning =>
        /\ Len(scratchpad) = iterations
        /\ pc = "start" => (scratchpad = << >> /\ llmCalls = 0)
        /\ pc = "think" => llmCalls = iterations
        /\ pc = "act" => (llmCalls = iterations + 1 /\ DOMAIN action = {"tool", "toolInput"})

\* What a step does to the scratchpad: a tool starts only out of a Think
\* that requested it, an Act step adds the one step {request, observation}
\* of the request in flight, and no other step of the run touches it.
AgentStep ==
    /\ (op' = "agentChat" /\ pc' = "act") =>
           /\ Running("agentChat", "think")
           /\ DOMAIN action' = {"tool", "toolInput"}
           /\ scratchpad' = scratchpad
    /\ (Running("agentChat", "act") /\ pc' # "act" /\ outcome'.type # "throw") =>
           /\ Len(scratchpad') = Len(scratchpad) + 1
           /\ SubSeq(scratchpad', 1, Len(scratchpad)) = scratchpad
           /\ scratchpad'[Len(scratchpad')].action = action
           /\ scratchpad'[Len(scratchpad')].observation \in Observations
           /\ pc' \in {"think", "done"}
    /\ (AgentRunning /\ pc # "act") => scratchpad' = scratchpad

\* C14: within one run of agentChat, Think and Act alternate; a tool runs
\* only after a Think requested it, one at a time; each Act adds exactly one
\* {request, observation} step to the scratchpad, which is empty at the
\* start and is never shortened or rewritten, so that after i Act steps it
\* has i steps.
C14_ThinkAndActAlternate == []AgentAlternation /\ [][AgentStep]_allVars

\* Two Act steps are done and the third Think is due.
C14_Witness ==
    /\ Running("agentChat", "think")
    /\ iterations = 2
    /\ llmCalls = 2
    /\ Len(scratchpad) = 2

---------------------------------------------------------------------------
(* C15: the typed chat history of agentChat *)

\* agentChat has handed its inputs to the executor.
AgentStarted ==
    op = "agentChat" /\ pc \in {"think", "act", "done"} /\ DOMAIN vars = {"input", "chat_history"}

\* C15: the chat history handed to the executor has one turn for every
\* message but the last, in order: a human turn for a message of role user,
\* an assistant turn for a message of role assistant, each with the
\* message's content; the input is the content of the last message, which
\* is no turn of the history.
C15_TypedHistory ==
    AgentStarted =>
        LET messages == MessagesOf(dto)
        IN  /\ Len(vars.chat_history) = Len(messages) - 1
            /\ \A i \in 1..(Len(messages) - 1) :
                  /\ vars.chat_history[i].content = messages[i].content
                  /\ messages[i].role = "user" => vars.chat_history[i].type = "human"
                  /\ messages[i].role = "assistant" => vars.chat_history[i].type = "ai"
            /\ vars.input = messages[Len(messages)].content

C15_Witness ==
    /\ Running("agentChat", "think")
    /\ MessagesOf(dto) = ExampleConversation
    /\ vars.chat_history = << [type |-> "human", content |-> "A"],
                              [type |-> "ai", content |-> "B"] >>
    /\ vars.input = "C"

---------------------------------------------------------------------------
(* C16: the page a chunk is tagged with *)

\* The page of the source document (as the loader numbers it, from 1) that
\* each document built by the loop of uploadPDF has its text from.
RECURSIVE SourcePages(_, _)
SourcePages(texts, index) ==
    IF index >= Len(texts) THEN << >>
    ELSE LET page == texts[index + 1]
             splitTexts == SplitText(page.pageContent, ChunkSize, ChunkOverlap)
         IN  [i \in 1..Len(splitTexts) |-> page.metadata.loc.pageNumber]
                 \o SourcePages(texts, index + 1)

\* uploadPDF has built the documents and waits for addDocuments.
UploadBuilt == Running("uploadPDF", "adding")

\* C16: every document handed to the Vector Store carries as pageNumber the
\* index of the page its text came from (counted from 0 or from 1, the same
\* for all): documents from the same page carry the same pageNumber and
\* documents from different pages different ones.
C16_ChunksCarryTheirPage ==
    UploadBuilt =>
        LET pages == SourcePages(SplitDocuments(PdfLoad(dto.file), ChunkSize, ChunkOverlap), 0)
        IN  /\ Len(pages) = Len(embeddings)
            /\ \E base \in {0, 1} :
                  \A i \in 1..Len(embeddings) :
                      embeddings[i].metadata.pageNumber = pages[i] - 1 + base
            /\ \A i, j \in 1..Len(embeddings) :
                  (pages[i] = pages[j]) <=>
                      (embeddings[i].metadata.pageNumber = embeddings[j].metadata.pageNumber)

---------------------------------------------------------------------------
(* C17: one addDocuments call per ingestion *)

\* The chunks of the pages of a file, page after page.
RECURSIVE PageChunks(_, _)
PageChunks(pages, i) ==
    IF i > Len(pages) THEN << >>
    ELSE SplitText(pages[i], ChunkSize, ChunkOverlap) \o PageChunks(pages, i + 1)

\* The addDocuments calls of the request in flight.
AddCalls == {i \in 1..Len(vsLog) : vsLog[i].call = "addDocuments"}

UploadSucceeded == op = "uploadPDF" /\ pc = "done" /\ IsSuccess(outcome)

\* Where an ingestion stands: no call before the pages are chunked, one call
\* from then on, made with all chunks in page order; a success comes with
\* the completed call, whose rows are the last rows of the table.
IngestState ==
    op = "uploadPDF" =>
        /\ pc \in {"start", "loading"} => vsLog = << >>
        /\ Cardinality(AddCalls) <= 1
        /\ (pc = "done" /\ logged # << >> /\ logged[1] \in {BadRequestException("File does not exist."), PdfError})
              => vsLog = << >>
        /\ vsLog # << >> =>
              /\ vsLog = <<[call |-> "addDocuments", count |-> Len(embeddings)]>>
              /\ [i \in 1..Len(embeddings) |-> embeddings[i].pageContent]
                    = PageChunks(PdfFiles[dto.file], 1)
        /\ UploadSucceeded =>
              /\ Cardinality(AddCalls) = 1
              /\ addLog # << >>
              /\ addLog[Len(addLog)] = [file |-> dto.file, documents |-> embeddings]
              /\ Len(store) >= Len(embeddings)
              /\ \A i \in 1..Len(embeddings) :
                    store[Len(store) - Len(embeddings) + i].content = embeddings[i].pageContent

\* What a step of an ingestion does: the table changes only in the step
\* that completes addDocuments, which is also the only step that reports
\* success; a step that fails leaves the table as it is.
IngestStep ==
    op = "uploadPDF" =>
        /\ store' # store => (pc = "adding" /\ IsSuccess(outcome'))
        /\ (outcome = NoOutcome /\ IsSuccess(outcome')) =>
              (pc = "adding" /\ Len(store') = Len(store) + Len(embeddings))
        /\ (outcome = NoOutcome /\ outcome'.type = "throw") => store' = store

\* C17: a successful ingestion calls addDocuments exactly once, after all
\* pages are chunked, with all chunks in page order, and reports success
\* only when the call has completed; when the file is missing or loading
\* fails, addDocuments is not called and the table is left unchanged.
C17_OneAddDocumentsCall == []IngestState /\ [][IngestStep]_allVars

\* long.pdf has been ingested: three chunks, two of them of the first page.
C17_Witness ==
    /\ UploadSucceeded
    /\ dto.file = "long.pdf"
    /\ vsLog = <<[call |-> "addDocuments", count |-> 3]>>
    /\ Len(store) = 3
    /\ Len(store[1].content) = ChunkSize

---------------------------------------------------------------------------
(* C18: clients and pools are given back *)

\* onModuleInit is inside the try block of ensureDatabaseSchema.
InEnsureTry == op = "onModuleInit" /\ pc \in {"uuid-ossp", "vector", "table"}

\* Every client ensureDatabaseSchema has checked out is released once: one
\* client is out while the queries run, none before and none after
\* onModuleInit has returned or failed; no client is released twice.
ClientsReleased ==
    /\ pool.checkedOut = (IF InEnsureTry THEN 1 ELSE 0)
    /\ pool.released + pool.checkedOut = pool.connects
    /\ pool.connects <= 1

\* The pool onModuleInit made is ended once onModuleDestroy has run.
PoolEnded == op = "onModuleDestroy" => (pool.state = "ended" /\ pool.checkedOut = 0)

\* C18: the client ensureDatabaseSchema checks out is released exactly
\* once, whether its queries succeed or throw, so that none is checked out
\* once onModuleInit has returned or failed; and onModuleDestroy ends the
\* pool onModuleInit made.
C18_ClientsAndPoolsReleased == ClientsReleased /\ PoolEnded

\* A query threw: onModuleInit failed and the client is back in the pool.
C18_Witness ==
    /\ op = "onModuleInit"
    /\ pc = "failed"
    /\ pool = [state |-> "open", connects |-> 1, checkedOut |-> 0, released |-> 1]

---------------------------------------------------------------------------
(* C20: starting again *)

InModuleInit ==
    op = "onModuleInit" /\ pc \in {"connect", "uuid-ossp", "vector", "table"}

\* The table is there only with both extensions, the table query is sent
\* only when both are there, rows are there only with the table, and no
\* query of ensureDatabaseSchema fails for want of an extension.
SchemaInOrder ==
    /\ db[config.tableName] => (db["uuid-ossp"] /\ db["vector"])
    /\ Running("onModuleInit", "table") => (db["uuid-ossp"] /\ db["vector"])
    /\ store # << >> => db[config.tableName]
    /\ outcome # Thrown(SchemaError)

\* A step of onModuleInit creates at most the one object it found absent,
\* drops nothing and keeps every row; on a database that has everything it
\* changes nothing.
InitStep ==
    /\ \A x \in DbObjects : db[x] => db'[x]
    /\ InModuleInit =>
          /\ store' = store
          /\ db' # db => \E x \in DbObjects : ~db[x] /\ db' = [db EXCEPT ![x] = TRUE]
          /\ db = InitializedDb => db' = db

\* C20: onModuleInit creates the extensions and the table only where they
\* are absent, the extensions before the table, and run again at a later
\* start on a database that has them it does not fail on them and leaves
\* the schema and the stored rows as they are.
C20_InitIsIdempotent == []SchemaInOrder /\ [][InitStep]_allVars

\* A later start has returned: the rows of an earlier ingestion are there.
C20_Witness ==
    /\ op = "onModuleInit"
    /\ pc = "idle"
    /\ outcome = NoOutcome
    /\ db = InitializedDb
    /\ Len(store) = 3
    /\ Len(addLog) = 1

---------------------------------------------------------------------------
(* C19: requests in flight together *)

\* What a request works with is made of its own input: the variables of its
\* prompt, its typed history, its one search and the context block of what
\* that search returned, the chunks of its own file, a scratchpad of its own
\* iterations.
OwnInputs(c) ==
    /\ c.op = "none" => c = IdleContext
    /\ (c.op = "basicChat" /\ c.pc \in {"completion", "done"}) =>
          c.vars = [input |-> c.dto.user_query]
    /\ (c.op = "contextAwareChat" /\ c.pc \in {"completion", "done"}) =>
          /\ c.vars.chat_history = HistoryLines(c.dto.messages, 1)
          /\ c.vars.input = c.dto.messages[Len(c.dto.messages)].content
    /\ (c.op = "documentChat" /\ c.pc # "start") =>
          /\ c.vsLog = <<[call |-> "similaritySearch", query |-> c.dto.user_query,
                          limit |-> 3]>>
          /\ \A i \in 1..Len(c.retrieved) :
                \E k \in 1..Len(store) : store[k].content = c.retrieved[i].pageContent
          /\ DOMAIN c.vars = {"context", "question"} =>
                /\ c.vars.question = c.dto.user_query
                /\ c.vars.context = ContextBlock(c.retrieved)
    /\ (c.op = "agentChat" /\ c.pc # "start") =>
          /\ c.vars.input = c.dto.messages[Len(c.dto.messages)].content
          /\ Len(c.vars.chat_history) = Len(c.dto.messages) - 1
          /\ \A i \in 1..(Len(c.dto.messages) - 1) :
                /\ c.vars.chat_history[i].content = c.dto.messages[i].content
                /\ (c.vars.chat_history[i].type = "human") <=> (c.dto.messages[i].role = "user")
          /\ Len(c.scratchpad) = c.iterations
          /\ c.llmCalls \in {c.iterations, c.iterations + 1}
    /\ (c.op = "uploadPDF" /\ c.vsLog # << >>) =>
          [i \in 1..Len(c.embeddings) |-> c.embeddings[i].pageContent]
              = PageChunks(PdfFiles[c.dto.file], 1)

\* A step leaves the request that waits as it is, or is the change of turn,
\* in which each request keeps what it had; and the table, the one thing
\* requests share, changes only when the uploadPDF that runs has its
\* documents added.
NoInterference ==
    /\ \/ parked' = parked
       \/ parked' = Context /\ Context' = parked
    /\ store' # store =>
          /\ Running("uploadPDF", "adding")
          /\ Len(store') = Len(store) + Len(embeddings)
          /\ SubSeq(store', 1, Len(store)) = store

\* C19: however requests of the five operations interleave, what each one
\* uses (prompt variables, chat history, scratchpad) is built from its own
\* input, and for documentChat from the rows of the Vector Store; no step of
\* one request changes what another one has, and requests share nothing but
\* the Vector Store.
C19_RequestsDoNotInterfere ==
    [](OwnInputs(Context) /\ OwnInputs(parked)) /\ [][NoInterference]_allVars

\* An agentChat before its third Think while a contextAwareChat waits for
\* its completion.
C19_Witness ==
    /\ Running("agentChat", "think")
    /\ iterations = 2
    /\ Len(scratchpad) = 2
    /\ parked.op = "contextAwareChat"
    /\ parked.pc = "completion"
    /\ parked.vars = [chat_history |-> "user: A\nassistant: B", input |-> "C"]
    /\ vars.input = "B"

====
